---- MODULE Spec2Model ----
(***************************************************************************)
(* State-machine model of the jscd48 repository:                           *)
(*   - MockCD48 (tests/mock-cd48.ts): the simulated CD48 device with its   *)
(*     asynchronous commands, its measurements, its auto-increment timer   *)
(*     and its failure-injection hooks;                                    *)
(*   - the conversions of src/validation.ts (clamp, voltageToByte,         *)
(*     byteToVoltage) and Coincidence.trueRate of calibration.js, as       *)
(*     operators applied by a small calculator specification.              *)
(* Every await of the source is a scheduling point: an asynchronous method *)
(* is one action per segment between awaits.                               *)
(***************************************************************************)
EXTENDS Integers, Sequences, FiniteSets, Bags, TLC

VARIABLES
    connected,          \* MockCD48.connected
    counts,             \* MockCD48.counts, channel c is counts[c + 1]
    coincidenceCounts,  \* MockCD48.coincidenceCounts
    autoIncrement,      \* MockCD48.autoIncrement
    incrementRate,      \* MockCD48.incrementRate
    failConnection,     \* MockCD48.failConnection
    failCommands,       \* MockCD48.failCommands
    disconnectAfter,    \* MockCD48.disconnectAfter, Null when null
    commandCount,       \* MockCD48.commandCount
    interval,           \* MockCD48._autoIncrementInterval, NoTimer when null
    timers,             \* the setInterval timers that are still scheduled
    failTimeouts,       \* pending setTimeout callbacks of failNextCommand
    calls,              \* the asynchronous calls in progress, a bag of them
    last,               \* the last event at the API: a call started or settled
    budget,             \* invocations the environment may still make
    calc,               \* the calculator: a pure function, its input and output
    profile,            \* the CalibrationProfile of calibration.js
    storage,            \* localStorage: the item of CalibrationStorage
    held                \* an array the caller of the mock holds on to

vars == <<connected, counts, coincidenceCounts, autoIncrement, incrementRate,
          failConnection, failCommands, disconnectAfter, commandCount,
          interval, timers, failTimeouts, calls, last, budget, calc, profile,
          storage, held>>

deviceVars == <<connected, counts, coincidenceCounts, autoIncrement,
                incrementRate, failConnection, failCommands, disconnectAfter,
                commandCount, interval, timers, failTimeouts, calls, last,
                budget>>

(***************************************************************************)
(* Bounds of the model.                                                    *)
(***************************************************************************)
MaxOps == 3
MaxTotal == 1

(***************************************************************************)
(* Program constants.                                                      *)
(***************************************************************************)
NumChannels == 8
Null == -1
NoTimer == 0

Min(a, b) == IF a <= b THEN a ELSE b
Max(a, b) == IF a >= b THEN a ELSE b

RECURSIVE SumSeq(_)
SumSeq(s) == IF s = <<>> THEN 0 ELSE Head(s) + SumSeq(Tail(s))

Zeros == [i \in 1..NumChannels |-> 0]

(***************************************************************************)
(* The calls in progress.  An asynchronous call between two of its awaits  *)
(* is a record: op is the method, pc the await it is suspended at          *)
(* ("delay": the _delay of connect/disconnect, "exec": the _delay inside   *)
(* _executeCommand, "window": the sampling _delay of a measurement), and   *)
(* channel, duration, start, snap are the method's arguments and locals.   *)
(* Calls have no identity beyond that, so the calls in progress are a bag. *)
(***************************************************************************)
Call(op, pc, channel, duration) ==
    [op |-> op, pc |-> pc, channel |-> channel, duration |-> duration,
     start |-> 0, snap |-> <<>>]

InProgress == BagToSet(calls)

Started(c) == calls (+) SetToBag({c})

Settled(c) == calls (-) SetToBag({c})

Resumed(c, d) == (calls (-) SetToBag({c})) (+) SetToBag({d})

CommandOps == {"getVersion", "getCounts", "getSettings", "clearCounts",
               "measureRate", "measureCoincidenceRate", "setRepeat",
               "toggleRepeat"}

PlainOps == {"getVersion", "getSettings", "setRepeat", "toggleRepeat"}

\* Arguments the environment passes: <<channel, duration>> of measureRate,
\* the duration of measureCoincidenceRate, and so on.
MeasureRateArgs == {<<0, 1>>, <<7, 2>>, <<-1, 2>>, <<8, 1>>}
Durations == {1, 2}
CoincidenceCountsArgs == {1}
SetCountsArgs == {[i \in 1..NumChannels |-> IF i = 1 THEN 1 ELSE 0],
                  <<1, 2, 3>>}
DisconnectAfterArgs == {0, 1}

NoVal == [none |-> TRUE]

\* What a step delivers to the caller of a method: the method, how it ended
\* and the value returned.
Event(op, outcome, val) == [op |-> op, outcome |-> outcome, val |-> val]

\* A call was started and is suspended at its first await.
Pending == Event("call", "pending", NoVal)

\* The step delivered nothing: a timer callback, or a method that went on
\* to its next await.
Quiet == Event("none", "none", NoVal)

(***************************************************************************)
(* constructor(options = {}): the options the mock is constructed with are *)
(* the defaults, or the defaults with one option given.                    *)
(***************************************************************************)
DefaultOptions == [autoIncrement |-> TRUE, incrementRate |-> 10,
                   failConnection |-> FALSE]

Options == {DefaultOptions,
            [DefaultOptions EXCEPT !.autoIncrement = FALSE],
            [DefaultOptions EXCEPT !.incrementRate = 20],
            [DefaultOptions EXCEPT !.failConnection = TRUE]}

DeviceInit ==
    /\ connected = FALSE
    /\ counts = Zeros
    /\ coincidenceCounts = 0
    /\ \E options \in Options :
          /\ autoIncrement = options.autoIncrement
          /\ incrementRate = options.incrementRate
          /\ failConnection = options.failConnection
    /\ failCommands = FALSE
    /\ disconnectAfter = Null
    /\ commandCount = 0
    /\ interval = NoTimer
    /\ timers = {}
    /\ failTimeouts = 0
    /\ calls = EmptyBag
    /\ last = Quiet
    /\ budget = MaxOps

(***************************************************************************)
(* _stopAutoIncrement / _startAutoIncrement: the timers left scheduled and *)
(* the handle kept in _autoIncrementInterval.                              *)
(***************************************************************************)
\* clearInterval forgotten: the timer of the handle stays scheduled.
StoppedTimers_Kept == timers

StoppedTimers == IF interval # NoTimer THEN timers \ {interval} ELSE timers

NewTimer(ts) == CHOOSE t \in 1..(Cardinality(ts) + 1) :
                    t \notin ts /\ \A u \in 1..(Cardinality(ts) + 1) :
                                      u \notin ts => t <= u

StopAutoIncrement ==
    /\ timers' = StoppedTimers
    /\ interval' = NoTimer

StartAutoIncrement ==
    /\ timers' = StoppedTimers \cup {NewTimer(StoppedTimers)}
    /\ interval' = NewTimer(StoppedTimers)

(***************************************************************************)
(* connect(): await _delay, then the body.                                 *)
(***************************************************************************)
ConnectCall ==
    /\ budget > 0
    /\ calls' = Started(Call("connect", "delay", 0, 0))
    /\ last' = Pending
    /\ budget' = budget - 1
    /\ UNCHANGED <<connected, counts, coincidenceCounts, autoIncrement,
                   incrementRate, failConnection, failCommands,
                   disconnectAfter, commandCount, interval, timers,
                   failTimeouts, calc, profile, storage, held>>

ConnectFail(c) ==
    /\ c.op = "connect" /\ c.pc = "delay"
    /\ failConnection
    /\ calls' = Settled(c)
    /\ last' = Event("connect", "ConnectionFailed", NoVal)
    /\ UNCHANGED <<connected, counts, coincidenceCounts, autoIncrement,
                   incrementRate, failConnection, failCommands,
                   disconnectAfter, commandCount, interval, timers,
                   failTimeouts, budget, calc, profile, storage, held>>

ConnectDone(c) ==
    /\ c.op = "connect" /\ c.pc = "delay"
    /\ ~failConnection
    /\ connected' = TRUE
    /\ commandCount' = 0
    /\ IF autoIncrement THEN StartAutoIncrement
                        ELSE UNCHANGED <<interval, timers>>
    /\ calls' = Settled(c)
    /\ last' = Event("connect", "ok", NoVal)
    /\ UNCHANGED <<counts, coincidenceCounts, autoIncrement, incrementRate,
                   failConnection, failCommands, disconnectAfter,
                   failTimeouts, budget, calc, profile, storage, held>>

(***************************************************************************)
(* disconnect(): await _delay, then connected = false and the timer stops. *)
(***************************************************************************)
DisconnectCall ==
    /\ budget > 0
    /\ calls' = Started(Call("disconnect", "delay", 0, 0))
    /\ last' = Pending
    /\ budget' = budget - 1
    /\ UNCHANGED <<connected, counts, coincidenceCounts, autoIncrement,
                   incrementRate, failConnection, failCommands,
                   disconnectAfter, commandCount, interval, timers,
                   failTimeouts, calc, profile, storage, held>>

DisconnectDone(c) ==
    /\ c.op = "disconnect" /\ c.pc = "delay"
    /\ connected' = FALSE
    /\ StopAutoIncrement
    /\ calls' = Settled(c)
    /\ last' = Event("disconnect", "ok", NoVal)
    /\ UNCHANGED <<counts, coincidenceCounts, autoIncrement, incrementRate,
                   failConnection, failCommands, disconnectAfter,
                   commandCount, failTimeouts, budget, calc, profile,
                   storage, held>>

(***************************************************************************)
(* _executeCommand(): the check made at the call, before the first await,  *)
(* and what the code after the await decides.                              *)
(***************************************************************************)
\* The check forgotten: every call goes on to the delay.
NotConnected_Unchecked == FALSE

NotConnected == ~connected

ExecFails == failCommands

\* The command that reaches the limit already disconnects.
ExecDisconnects_AtLimit(n) == disconnectAfter # Null /\ n >= disconnectAfter

ExecDisconnects(n) == disconnectAfter # Null /\ n > disconnectAfter

ExecPasses == ~ExecFails /\ ~ExecDisconnects(commandCount + 1)

\* The <<channel, duration>> a call of op may carry.
ArgsOf(op) ==
    CASE op = "measureRate" -> MeasureRateArgs
      [] op = "measureCoincidenceRate" -> {<<0, d>> : d \in Durations}
      [] OTHER -> {<<0, 0>>}

\* A command method called while disconnected: _executeCommand throws before
\* its first await and the method's promise is rejected.
CommandRejected(op, ch, d) ==
    /\ budget > 0
    /\ NotConnected
    /\ last' = Event(op, "NotConnected", NoVal)
    /\ budget' = budget - 1
    /\ UNCHANGED <<connected, counts, coincidenceCounts, autoIncrement,
                   incrementRate, failConnection, failCommands,
                   disconnectAfter, commandCount, interval, timers,
                   failTimeouts, calls, calc, profile, storage, held>>

\* A command method called while connected: suspended at the _delay of
\* _executeCommand.
CommandCall(op, ch, d) ==
    /\ budget > 0
    /\ ~NotConnected
    /\ calls' = Started(Call(op, "exec", ch, d))
    /\ last' = Pending
    /\ budget' = budget - 1
    /\ UNCHANGED <<connected, counts, coincidenceCounts, autoIncrement,
                   incrementRate, failConnection, failCommands,
                   disconnectAfter, commandCount, interval, timers,
                   failTimeouts, calc, profile, storage, held>>

\* The failure is reported and the call goes back to the delay for a second
\* attempt.
ExecFail_Retried(c) ==
    /\ c.pc = "exec"
    /\ ExecFails
    /\ calls' = calls
    /\ last' = Event(c.op, "CommandFailed", NoVal)
    /\ UNCHANGED <<connected, counts, coincidenceCounts, autoIncrement,
                   incrementRate, failConnection, failCommands,
                   disconnectAfter, commandCount, interval, timers,
                   failTimeouts, budget, calc, profile, storage, held>>

\* After the delay: failCommands is set, 'Mock command failed'.
ExecFail(c) ==
    /\ c.pc = "exec"
    /\ ExecFails
    /\ calls' = Settled(c)
    /\ last' = Event(c.op, "CommandFailed", NoVal)
    /\ UNCHANGED <<connected, counts, coincidenceCounts, autoIncrement,
                   incrementRate, failConnection, failCommands,
                   disconnectAfter, commandCount, interval, timers,
                   failTimeouts, budget, calc, profile, storage, held>>

\* After the delay: the command counted is past disconnectAfter,
\* 'Device disconnected unexpectedly'.
ExecDisconnect(c) ==
    /\ c.pc = "exec"
    /\ ~ExecFails
    /\ ExecDisconnects(commandCount + 1)
    /\ commandCount' = commandCount + 1
    /\ connected' = FALSE
    /\ calls' = Settled(c)
    /\ last' = Event(c.op, "Disconnected", NoVal)
    /\ UNCHANGED <<counts, coincidenceCounts, autoIncrement, incrementRate,
                   failConnection, failCommands, disconnectAfter, interval,
                   timers, failTimeouts, budget, calc, profile,
                   storage, held>>

(***************************************************************************)
(* The methods' bodies after a _executeCommand that passed.                *)
(***************************************************************************)
\* getVersion, getSettings, setRepeat, toggleRepeat
PlainDone(c) ==
    /\ c.pc = "exec" /\ c.op \in PlainOps
    /\ ExecPasses
    /\ commandCount' = commandCount + 1
    /\ calls' = Settled(c)
    /\ last' = Event(c.op, "ok", NoVal)
    /\ UNCHANGED <<connected, counts, coincidenceCounts, autoIncrement,
                   incrementRate, failConnection, failCommands,
                   disconnectAfter, interval, timers, failTimeouts, budget,
                   calc, profile, storage, held>>

(***************************************************************************)
(* The array behind this.counts and the array the caller holds.  held.from *)
(* tells where the caller's array came from ("awaiting": the caller will   *)
(* hold on to the first array it hands in or gets back), held.elems is     *)
(* what it contains, and held.shared tells that it is the very array       *)
(* this.counts refers to.                                                  *)
(***************************************************************************)
\* The same array as this.counts, returned without a copy.
Snapshot_SameArray == [from |-> "getCounts", elems |-> counts, shared |-> TRUE]

\* counts: [...this.counts], a new array with the counters of the moment
Snapshot == [from |-> "getCounts", elems |-> counts, shared |-> FALSE]

\* this.counts = [...counts]: the device takes a copy of the array given
Copied(arr) == [from |-> "setCounts", elems |-> arr, shared |-> FALSE]

\* this.counts = options.initialCounts: the device takes the array itself
Adopted(arr) == [from |-> "initialCounts", elems |-> arr, shared |-> TRUE]

\* this.counts[i] = ...: a write into the array of this.counts, seen
\* through every reference to that array
WrittenInPlace(newCounts) ==
    IF held.shared THEN [held EXCEPT !.elems = newCounts] ELSE held

\* this.counts = <a new array>: the caller's array is no longer the device's
Replaced == [held EXCEPT !.shared = FALSE]

\* getCounts: a copy of the counters.
CountData == [counts |-> counts, coincidenceCounts |-> coincidenceCounts]

GetCountsDone(c) ==
    /\ c.pc = "exec" /\ c.op = "getCounts"
    /\ ExecPasses
    /\ commandCount' = commandCount + 1
    /\ calls' = Settled(c)
    /\ last' = Event("getCounts", "ok", CountData)
    /\ held' = IF held.from = "awaiting" THEN Snapshot ELSE held
    /\ UNCHANGED <<connected, counts, coincidenceCounts, autoIncrement,
                   incrementRate, failConnection, failCommands,
                   disconnectAfter, interval, timers, failTimeouts, budget,
                   calc, profile, storage>>

ClearCountsDone(c) ==
    /\ c.pc = "exec" /\ c.op = "clearCounts"
    /\ ExecPasses
    /\ commandCount' = commandCount + 1
    /\ counts' = Zeros
    /\ coincidenceCounts' = 0
    /\ calls' = Settled(c)
    /\ last' = Event("clearCounts", "ok", NoVal)
    /\ held' = Replaced
    /\ UNCHANGED <<connected, autoIncrement, incrementRate, failConnection,
                   failCommands, disconnectAfter, interval, timers,
                   failTimeouts, budget, calc, profile, storage>>

(***************************************************************************)
(* measureRate(channel, duration)                                          *)
(***************************************************************************)
InvalidChannel(channel) == channel < 0 \/ channel > 7

\* this.counts[channel] ?? 0
CounterAt(channel) ==
    IF channel + 1 \in DOMAIN counts THEN counts[channel + 1] ELSE 0

\* The two readings subtracted the wrong way round.
TotalCounts_Reversed(endCounts, startCounts) == startCounts - endCounts

TotalCounts(endCounts, startCounts) == endCounts - startCounts

\* The division by the duration forgotten.
Rate_Undivided(totalCounts, duration) == <<totalCounts, 1>>

\* totalCounts / duration, as the fraction <<numerator, denominator>>
Rate(totalCounts, duration) == <<totalCounts, duration>>

\* Math.sqrt(Math.max(0, totalCounts)) / duration, as sqrt(sqrtOf) / over
Uncertainty(totalCounts, duration) ==
    [sqrtOf |-> Max(0, totalCounts), over |-> duration]

RateMeasurement(channel, duration, startCounts, endCounts) ==
    [channel |-> channel,
     duration |-> duration,
     counts |-> TotalCounts(endCounts, startCounts),
     rate |-> Rate(TotalCounts(endCounts, startCounts), duration),
     uncertainty |-> Uncertainty(TotalCounts(endCounts, startCounts), duration)]

MeasureRateInvalid(c) ==
    /\ c.pc = "exec" /\ c.op = "measureRate"
    /\ ExecPasses
    /\ commandCount' = commandCount + 1
    /\ InvalidChannel(c.channel)
    /\ calls' = Settled(c)
    /\ last' = Event("measureRate", "InvalidChannel", NoVal)
    /\ UNCHANGED <<connected, counts, coincidenceCounts, autoIncrement,
                   incrementRate, failConnection, failCommands,
                   disconnectAfter, interval, timers, failTimeouts, budget,
                   calc, profile, storage, held>>

\* startCounts is read and the method waits for duration seconds.
MeasureRateStart(c) ==
    /\ c.pc = "exec" /\ c.op = "measureRate"
    /\ ExecPasses
    /\ commandCount' = commandCount + 1
    /\ ~InvalidChannel(c.channel)
    /\ calls' = Resumed(c, [c EXCEPT !.pc = "window",
                                      !.start = CounterAt(c.channel)])
    /\ last' = Quiet
    /\ UNCHANGED <<connected, counts, coincidenceCounts, autoIncrement,
                   incrementRate, failConnection, failCommands,
                   disconnectAfter, interval, timers, failTimeouts,
                   budget, calc, profile, storage, held>>

\* The wait is over: endCounts is read and the measurement returned.
MeasureRateDone(c) ==
    /\ c.pc = "window" /\ c.op = "measureRate"
    /\ calls' = Settled(c)
    /\ last' = Event("measureRate", "ok",
                     RateMeasurement(c.channel, c.duration,
                                     c.start,
                                     CounterAt(c.channel)))
    /\ UNCHANGED <<connected, counts, coincidenceCounts, autoIncrement,
                   incrementRate, failConnection, failCommands,
                   disconnectAfter, commandCount, interval, timers,
                   failTimeouts, budget, calc, profile, storage, held>>

(***************************************************************************)
(* measureCoincidenceRate(options)                                         *)
(***************************************************************************)
\* endCounts returned as the counts, startCounts not subtracted.
CoincidenceRateMeasurement_NoStart(duration, startCounts, endCounts) ==
    [duration |-> duration,
     counts |-> endCounts,
     rate |-> Rate(endCounts, duration),
     uncertainty |-> Uncertainty(endCounts, duration)]

CoincidenceRateMeasurement(duration, startCounts, endCounts) ==
    [duration |-> duration,
     counts |-> TotalCounts(endCounts, startCounts),
     rate |-> Rate(TotalCounts(endCounts, startCounts), duration),
     uncertainty |-> Uncertainty(TotalCounts(endCounts, startCounts), duration)]

MeasureCoincidenceStart(c) ==
    /\ c.pc = "exec" /\ c.op = "measureCoincidenceRate"
    /\ ExecPasses
    /\ commandCount' = commandCount + 1
    /\ calls' = Resumed(c, [c EXCEPT !.pc = "window",
                                      !.start = coincidenceCounts])
    /\ last' = Quiet
    /\ UNCHANGED <<connected, counts, coincidenceCounts, autoIncrement,
                   incrementRate, failConnection, failCommands,
                   disconnectAfter, interval, timers, failTimeouts,
                   budget, calc, profile, storage, held>>

MeasureCoincidenceDone(c) ==
    /\ c.pc = "window" /\ c.op = "measureCoincidenceRate"
    /\ calls' = Settled(c)
    /\ last' = Event("measureCoincidenceRate", "ok",
                     CoincidenceRateMeasurement(c.duration,
                                                c.start,
                                                coincidenceCounts))
    /\ UNCHANGED <<connected, counts, coincidenceCounts, autoIncrement,
                   incrementRate, failConnection, failCommands,
                   disconnectAfter, commandCount, interval, timers,
                   failTimeouts, budget, calc, profile, storage, held>>

(***************************************************************************)
(* CD48.measureCoincidenceRate of the driver, run against this device: one *)
(* reading of all the counters when the window opens, one when it closes.  *)
(***************************************************************************)
SinglesAChannel == 0
SinglesBChannel == 1
CoincidenceChannel == 4

DriverOp == "CD48.measureCoincidenceRate"

CoincidenceDeltas(startSnap, endSnap) ==
    [singlesA |-> endSnap[SinglesAChannel + 1] - startSnap[SinglesAChannel + 1],
     singlesB |-> endSnap[SinglesBChannel + 1] - startSnap[SinglesBChannel + 1],
     coincidences |-> endSnap[CoincidenceChannel + 1]
                         - startSnap[CoincidenceChannel + 1]]

\* The counters are read and the method waits for the window.
DriverCoincidenceStart ==
    /\ budget > 0
    /\ connected
    /\ calls' = Started([Call(DriverOp, "window", 0, 1) EXCEPT !.snap = counts])
    /\ last' = Pending
    /\ budget' = budget - 1
    /\ UNCHANGED <<connected, counts, coincidenceCounts, autoIncrement,
                   incrementRate, failConnection, failCommands,
                   disconnectAfter, commandCount, interval, timers,
                   failTimeouts, calc, profile, storage, held>>

\* The window is over: the counters are read again and the three
\* differences returned.
DriverCoincidenceDone(c) ==
    /\ c.pc = "window" /\ c.op = DriverOp
    /\ calls' = Settled(c)
    /\ last' = Event(DriverOp, "ok", CoincidenceDeltas(c.snap, counts))
    /\ UNCHANGED <<connected, counts, coincidenceCounts, autoIncrement,
                   incrementRate, failConnection, failCommands,
                   disconnectAfter, commandCount, interval, timers,
                   failTimeouts, budget, calc, profile, storage, held>>

(***************************************************************************)
(* The auto-increment timer: the callback of setInterval.                  *)
(***************************************************************************)
\* Math.floor(Math.random() * incrementRate * 2 * (100 / 1000)) is at most
MaxIncrement(rate) == ((rate + 4) \div 5) - 1

\* Math.floor(Math.random() * incrementRate * 0.1) is at most
MaxCoincidenceIncrement(rate) == ((rate + 9) \div 10) - 1

\* The increments of n channels, each in 0..hi, that add up to at most room.
RECURSIVE Increments(_, _, _)
Increments(n, hi, room) ==
    IF n = 0 THEN {<<>>}
    ELSE UNION {{<<x>> \o v : v \in Increments(n - 1, hi, room - x)} :
                   x \in 0..Min(hi, room)}

\* What is left under the model's cap on the counters.
Room(used) == Max(0, MaxTotal - used)

\* The device is no longer connected: the callback stops the timer.
TickStop(t) ==
    /\ t \in timers
    /\ ~connected
    /\ StopAutoIncrement
    /\ last' = Quiet
    /\ UNCHANGED <<connected, counts, coincidenceCounts, autoIncrement,
                   incrementRate, failConnection, failCommands,
                   disconnectAfter, commandCount, failTimeouts, calls,
                   budget, calc, profile, storage, held>>

TickIncrement(t) ==
    /\ t \in timers
    /\ connected
    /\ \E inc \in Increments(NumChannels, MaxIncrement(incrementRate),
                             Room(SumSeq(counts) + coincidenceCounts)) :
          counts' = [i \in DOMAIN counts |-> counts[i] + inc[i]]
    /\ \E c \in 0..Min(MaxCoincidenceIncrement(incrementRate),
                       Room(SumSeq(counts') + coincidenceCounts)) :
          coincidenceCounts' = coincidenceCounts + c
    /\ held' = WrittenInPlace(counts')
    /\ last' = Quiet
    /\ UNCHANGED <<connected, autoIncrement, incrementRate, failConnection,
                   failCommands, disconnectAfter, commandCount, interval,
                   timers, failTimeouts, calls, budget, calc, profile,
                   storage>>

(***************************************************************************)
(* The synchronous methods and fields the tests drive the mock with.       *)
(***************************************************************************)
SetCounts(arr) ==
    /\ budget > 0
    /\ Len(arr) = 8
    /\ counts' = arr
    /\ held' = IF held.from = "awaiting" THEN Copied(arr) ELSE Replaced
    /\ last' = Event("setCounts", "ok", NoVal)
    /\ budget' = budget - 1
    /\ UNCHANGED <<connected, coincidenceCounts, autoIncrement, incrementRate,
                   failConnection, failCommands, disconnectAfter,
                   commandCount, interval, timers, failTimeouts, calls, calc,
                   profile, storage>>

SetCountsRejected(arr) ==
    /\ budget > 0
    /\ Len(arr) # 8
    /\ last' = Event("setCounts", "WrongLength", NoVal)
    /\ budget' = budget - 1
    /\ UNCHANGED <<connected, counts, coincidenceCounts, autoIncrement,
                   incrementRate, failConnection, failCommands,
                   disconnectAfter, commandCount, interval, timers,
                   failTimeouts, calls, calc, profile, storage, held>>

SetCoincidenceCounts(count) ==
    /\ budget > 0
    /\ coincidenceCounts' = count
    /\ last' = Event("setCoincidenceCounts", "ok", NoVal)
    /\ budget' = budget - 1
    /\ UNCHANGED <<connected, counts, autoIncrement, incrementRate,
                   failConnection, failCommands, disconnectAfter,
                   commandCount, interval, timers, failTimeouts, calls, calc,
                   profile, storage, held>>

FailNextCommand ==
    /\ budget > 0
    /\ failCommands' = TRUE
    /\ failTimeouts' = failTimeouts + 1
    /\ last' = Event("failNextCommand", "ok", NoVal)
    /\ budget' = budget - 1
    /\ UNCHANGED <<connected, counts, coincidenceCounts, autoIncrement,
                   incrementRate, failConnection, disconnectAfter,
                   commandCount, interval, timers, calls, calc, profile,
                   storage, held>>

\* The setTimeout callback of failNextCommand.
FailReset ==
    /\ failTimeouts > 0
    /\ failCommands' = FALSE
    /\ failTimeouts' = failTimeouts - 1
    /\ last' = Quiet
    /\ UNCHANGED <<connected, counts, coincidenceCounts, autoIncrement,
                   incrementRate, failConnection, disconnectAfter,
                   commandCount, interval, timers, calls, budget, calc,
                   profile, storage, held>>

SetDisconnectAfter(n) ==
    /\ budget > 0
    /\ disconnectAfter' = n
    /\ commandCount' = 0
    /\ last' = Event("setDisconnectAfter", "ok", NoVal)
    /\ budget' = budget - 1
    /\ UNCHANGED <<connected, counts, coincidenceCounts, autoIncrement,
                   incrementRate, failConnection, failCommands, interval,
                   timers, failTimeouts, calls, calc, profile, storage, held>>

\* cd48._startAutoIncrement(), called from outside
DirectStartAutoIncrement ==
    /\ budget > 0
    /\ StartAutoIncrement
    /\ last' = Event("_startAutoIncrement", "ok", NoVal)
    /\ budget' = budget - 1
    /\ UNCHANGED <<connected, counts, coincidenceCounts, autoIncrement,
                   incrementRate, failConnection, failCommands,
                   disconnectAfter, commandCount, failTimeouts, calls, calc,
                   profile, storage, held>>

(***************************************************************************)
(* The device specification.                                               *)
(***************************************************************************)
NoCalc == [fn |-> "none"]

\* No calibration profile has been created.
NoProfile == [name |-> "none"]

\* localStorage.getItem(storageKey) is null: nothing was ever stored.
NoStorage == [item |-> "null", saved |-> [n \in {} |-> 0]]

\* The caller holds on to no array of counts.
NoArray == [from |-> "none", elems |-> <<>>, shared |-> FALSE]

Init ==
    /\ DeviceInit
    /\ calc = NoCalc
    /\ profile = NoProfile
    /\ storage = NoStorage
    /\ held = NoArray

Next ==
    \/ ConnectCall
    \/ \E c \in InProgress : ConnectFail(c)
    \/ \E c \in InProgress : ConnectDone(c)
    \/ DisconnectCall
    \/ \E c \in InProgress : DisconnectDone(c)
    \/ \E op \in CommandOps : \E a \in ArgsOf(op) :
          CommandRejected(op, a[1], a[2])
    \/ \E op \in CommandOps : \E a \in ArgsOf(op) :
          CommandCall(op, a[1], a[2])
    \/ \E c \in InProgress : ExecFail(c)
    \/ \E c \in InProgress : ExecDisconnect(c)
    \/ \E c \in InProgress : PlainDone(c)
    \/ \E c \in InProgress : GetCountsDone(c)
    \/ \E c \in InProgress : ClearCountsDone(c)
    \/ \E c \in InProgress : MeasureRateInvalid(c)
    \/ \E c \in InProgress : MeasureRateStart(c)
    \/ \E c \in InProgress : MeasureRateDone(c)
    \/ \E c \in InProgress : MeasureCoincidenceStart(c)
    \/ \E c \in InProgress : MeasureCoincidenceDone(c)
    \/ DriverCoincidenceStart
    \/ \E c \in InProgress : DriverCoincidenceDone(c)
    \/ \E t \in timers : TickStop(t)
    \/ \E t \in timers : TickIncrement(t)
    \/ \E arr \in SetCountsArgs : SetCounts(arr)
    \/ \E arr \in SetCountsArgs : SetCountsRejected(arr)
    \/ \E c \in CoincidenceCountsArgs : SetCoincidenceCounts(c)
    \/ FailNextCommand
    \/ FailReset
    \/ \E n \in DisconnectAfterArgs : SetDisconnectAfter(n)
    \/ DirectStartAutoIncrement

Spec == Init /\ [][Next]_vars

(***************************************************************************)
(* Properties of the device.                                               *)
(***************************************************************************)
\* Fractions are equal when they cross-multiply to the same product.
FracEq(a, b) == a[1] * b[2] = b[1] * a[2]

FracGeqZero(a) == (a[1] >= 0 /\ a[2] > 0) \/ (a[1] <= 0 /\ a[2] < 0)

\* The commands suspended inside _executeCommand, as many as there are.
CommandsInFlight ==
    LET inflight == {c \in InProgress : c.pc = "exec"}
        RECURSIVE Total(_)
        Total(S) == IF S = {} THEN 0
                    ELSE LET c == CHOOSE x \in S : TRUE
                         IN CopiesIn(c, calls) + Total(S \ {c})
    IN Total(inflight)

C2_OneCommandInFlight == CommandsInFlight <= 1

\* C3: right after a command failed with an I/O failure (a simulated command
\* failure or an unexpected disconnect) the session is disconnected.
C3_FailureDisconnects ==
    last.outcome \in {"CommandFailed", "Disconnected"} => ~connected

\* C4: measureRate never returns a measurement with negative counts or a
\* negative rate.
C4_NoNegativeRate ==
    (last.op = "measureRate" /\ last.outcome = "ok") =>
        (last.val.counts >= 0 /\ FracGeqZero(last.val.rate))

\* C5: a measurement returns a result only while the session is connected:
\* a session disconnected during the sampling window ends the measurement
\* in failure.
C5_ResultOnlyWhileConnected ==
    (last.op \in {"measureRate", "measureCoincidenceRate"}
        /\ last.outcome = "ok") => connected

C7_RateMeasurement ==
    [][\A c \in InProgress :
          /\ (c.op = "measureRate" /\ c.pc = "exec")
                => \A d \in BagToSet(calls') :
                      (d.pc = "window" /\ calls' = Resumed(c, d)) =>
                          d.start = counts[c.channel + 1]
          /\ (c.op = "measureRate" /\ c.pc = "window"
                 /\ calls' = Settled(c)
                 /\ last'.op = "measureRate" /\ last'.outcome = "ok"
                 /\ last'.val.counts >= 0 /\ c.duration > 0)
                => /\ last'.val.counts = counts[c.channel + 1] - c.start
                   /\ FracEq(last'.val.rate, <<last'.val.counts, c.duration>>)
                   /\ last'.val.uncertainty.sqrtOf = last'.val.counts
                   /\ last'.val.uncertainty.over = c.duration
                   /\ last'.val.channel = c.channel
                   /\ last'.val.duration = c.duration]_vars

\* A measurement over two seconds that counted something.
C7_Witness ==
    /\ last.op = "measureRate" /\ last.outcome = "ok"
    /\ last.val.counts > 0 /\ last.val.duration = 2

(***************************************************************************)
(* JavaScript numbers, for the conversions: a finite number is the exact   *)
(* fraction n / d in lowest terms with d > 0, and NaN, Infinity and        *)
(* -Infinity are values of their own.                                      *)
(***************************************************************************)
Abs(x) == IF x < 0 THEN -x ELSE x

RECURSIVE GCD(_, _)
GCD(a, b) == IF b = 0 THEN a ELSE GCD(b, a % b)

Num(n, d) ==
    LET g == GCD(Abs(n), Abs(d))
        sgn == IF d < 0 THEN -1 ELSE 1
    IN [kind |-> "num", n |-> sgn * (n \div g), d |-> sgn * (d \div g)]

NaN == [kind |-> "nan", n |-> 0, d |-> 1]
PosInfinity == [kind |-> "inf", n |-> 1, d |-> 1]
NegInfinity == [kind |-> "inf", n |-> -1, d |-> 1]

\* A value that is not a number: a string that is no numeral.
NotANumber == [kind |-> "string", n |-> 0, d |-> 1]

\* A function that threw instead of returning.
Thrown == [kind |-> "throw", n |-> 0, d |-> 1]

IsNaN(x) == x.kind = "nan"

\* typeof x === 'number'
IsNumber(x) == x.kind \in {"num", "nan", "inf"}

\* a <= b, for numbers that are not NaN
Leq(a, b) ==
    CASE a.kind = "inf" /\ a.n < 0 -> TRUE
      [] b.kind = "inf" /\ b.n > 0 -> TRUE
      [] a.kind = "num" /\ b.kind = "num" -> a.n * b.d <= b.n * a.d
      [] OTHER -> FALSE

Lt(a, b) == Leq(a, b) /\ ~Leq(b, a)

MathMin(a, b) ==
    IF IsNaN(a) \/ IsNaN(b) THEN NaN ELSE IF Leq(a, b) THEN a ELSE b

MathMax(a, b) ==
    IF IsNaN(a) \/ IsNaN(b) THEN NaN ELSE IF Leq(a, b) THEN b ELSE a

\* a * b, a - b and a / b of finite numbers (b # 0 for the division)
Times(a, b) == Num(a.n * b.n, a.d * b.d)
Minus(a, b) == Num(a.n * b.d - b.n * a.d, a.d * b.d)
Over(a, b) == Num(a.n * b.d, a.d * b.n)

\* The sign of a number that is not NaN, a zero counted as positive.
Sign(x) == IF x.n < 0 THEN -1 ELSE 1

Infinite(sign) == IF sign < 0 THEN NegInfinity ELSE PosInfinity

\* The arithmetic of JavaScript on any two numbers: NaN and the infinities
\* propagate, x / 0 is an infinity and 0 / 0 is NaN.
Add(a, b) ==
    CASE IsNaN(a) \/ IsNaN(b) -> NaN
      [] a.kind = "inf" /\ b.kind = "inf" -> IF a = b THEN a ELSE NaN
      [] a.kind = "inf" -> a
      [] b.kind = "inf" -> b
      [] OTHER -> Num(a.n * b.d + b.n * a.d, a.d * b.d)

Neg(a) ==
    CASE IsNaN(a) -> NaN
      [] a.kind = "inf" -> Infinite(-a.n)
      [] OTHER -> Num(-a.n, a.d)

Sub(a, b) == Add(a, Neg(b))

Mul(a, b) ==
    CASE IsNaN(a) \/ IsNaN(b) -> NaN
      [] a.kind = "inf" \/ b.kind = "inf" ->
            IF a.n = 0 \/ b.n = 0 THEN NaN ELSE Infinite(Sign(a) * Sign(b))
      [] OTHER -> Times(a, b)

Div(a, b) ==
    CASE IsNaN(a) \/ IsNaN(b) -> NaN
      [] a.kind = "inf" /\ b.kind = "inf" -> NaN
      [] a.kind = "inf" -> Infinite(Sign(a) * Sign(b))
      [] b.kind = "inf" -> Num(0, 1)
      [] b.n = 0 -> IF a.n = 0 THEN NaN ELSE Infinite(Sign(a))
      [] OTHER -> Over(a, b)

\* Math.round of a finite number: the nearest integer, halves rounded up.
MathRound(x) == Num((2 * x.n + x.d) \div (2 * x.d), 1)

(***************************************************************************)
(* src/validation.ts                                                       *)
(***************************************************************************)
VOLTAGE_MIN == Num(0, 1)
VOLTAGE_MAX == Num(408, 100)
BYTE_MIN == Num(0, 1)
BYTE_MAX == Num(255, 1)

CHANNEL_MIN == Num(0, 1)
CHANNEL_MAX == Num(7, 1)

\* How validateChannel ends: one of its two errors, or "ok" when it returns.
validateChannel(channel) ==
    IF ~IsNumber(channel) \/ IsNaN(channel) THEN "ValidationError"
    ELSE IF Lt(channel, CHANNEL_MIN) \/ Lt(CHANNEL_MAX, channel)
         THEN "InvalidChannelError"
         ELSE "ok"

clamp(value, min, max) == MathMax(min, MathMin(max, value))

clampVoltage(voltage) == clamp(voltage, VOLTAGE_MIN, VOLTAGE_MAX)

\* TRUE when validateByte throws
validateByte(byte) ==
    \/ ~IsNumber(byte) \/ IsNaN(byte)
    \/ Lt(byte, BYTE_MIN) \/ Lt(BYTE_MAX, byte)

\* The scale taken as 256 steps instead of 255.
voltageToByte_Scale256(voltage) ==
    LET clamped == clampVoltage(voltage)
    IN IF IsNaN(clamped) THEN NaN
       ELSE MathRound(Times(Over(clamped, VOLTAGE_MAX), Num(256, 1)))

voltageToByte(voltage) ==
    LET clamped == clampVoltage(voltage)
    IN IF IsNaN(clamped) THEN NaN
       ELSE MathRound(Times(Over(clamped, VOLTAGE_MAX), BYTE_MAX))

\* The byte clamped to 0..255 instead of rejected.
byteToVoltage_Clamping(byte) ==
    IF ~IsNumber(byte) \/ IsNaN(byte) THEN Thrown
    ELSE Times(Over(clamp(byte, BYTE_MIN, BYTE_MAX), BYTE_MAX), VOLTAGE_MAX)

byteToVoltage(byte) ==
    IF validateByte(byte) THEN Thrown
    ELSE Times(Over(byte, BYTE_MAX), VOLTAGE_MAX)

(***************************************************************************)
(* calibration.js, Coincidence                                             *)
(***************************************************************************)
accidentalRate(rate1, rate2, coincidenceWindow) ==
    Times(Times(Times(Num(2, 1), rate1), rate2), coincidenceWindow)

\* The clamp at zero forgotten.
trueRate_Unclamped(measuredRate, rate1, rate2, coincidenceWindow) ==
    Minus(measuredRate, accidentalRate(rate1, rate2, coincidenceWindow))

trueRate(measuredRate, rate1, rate2, coincidenceWindow) ==
    LET accidental == accidentalRate(rate1, rate2, coincidenceWindow)
    IN MathMax(Num(0, 1), Minus(measuredRate, accidental))

(***************************************************************************)
(* calibration.js, VoltageCalibration                                      *)
(***************************************************************************)
\* The offset taken as actual - gain, the raw value forgotten.
twoPoint_OffsetWithoutRaw(point1, point2) ==
    LET gain == Div(Sub(point2.actual, point1.actual),
                    Sub(point2.raw, point1.raw))
    IN [gain |-> gain, offset |-> Sub(point1.actual, gain)]

twoPoint(point1, point2) ==
    LET gain == Div(Sub(point2.actual, point1.actual),
                    Sub(point2.raw, point1.raw))
        offset == Sub(point1.actual, Mul(gain, point1.raw))
    IN [gain |-> gain, offset |-> offset]

apply(raw, gain, offset) == Add(Mul(raw, gain), offset)

\* throw new Error('At least 2 calibration points required')
TooFewPoints == [error |-> "Error"]

\* The sums of the forEach loop over the first k points.
RECURSIVE Sums(_, _)
Sums(points, k) ==
    IF k = 0
    THEN [sumX |-> Num(0, 1), sumY |-> Num(0, 1),
          sumXY |-> Num(0, 1), sumXX |-> Num(0, 1)]
    ELSE LET s == Sums(points, k - 1)
             point == points[k]
         IN [sumX |-> Add(s.sumX, point.raw),
             sumY |-> Add(s.sumY, point.actual),
             sumXY |-> Add(s.sumXY, Mul(point.raw, point.actual)),
             sumXX |-> Add(s.sumXX, Mul(point.raw, point.raw))]

multiPoint(points) ==
    IF Len(points) < 2 THEN TooFewPoints
    ELSE LET n == Num(Len(points), 1)
             s == Sums(points, Len(points))
             gain == Div(Sub(Mul(n, s.sumXY), Mul(s.sumX, s.sumY)),
                         Sub(Mul(n, s.sumXX), Mul(s.sumX, s.sumX)))
             offset == Div(Sub(s.sumY, Mul(gain, s.sumX)), n)
         IN [gain |-> gain, offset |-> offset]

(***************************************************************************)
(* parseCounts of the driver: the reply to the counts command is split on  *)
(* whitespace; nine integers make a snapshot, anything else is malformed.  *)
(* A reply is its tokens in order, with or without whitespace around them. *)
(***************************************************************************)
IntToken(n) == [text |-> "int", val |-> n]
JunkToken == [text |-> "junk", val |-> 0]
EmptyToken == [text |-> "", val |-> 0]

\* response.split(/\s+/): whitespace at the ends leaves an empty string there
SplitWhitespace(line) ==
    IF line.padded THEN <<EmptyToken>> \o line.tokens \o <<EmptyToken>>
    ELSE line.tokens

\* The empty strings kept.
NonEmpty_Unfiltered(parts) == parts

\* .filter((p) => p.length > 0)
NonEmpty(parts) == SelectSeq(parts, LAMBDA p : p.text # "")

MalformedResponse == [error |-> "MalformedResponseError"]

parseCounts(line) ==
    LET parts == NonEmpty(SplitWhitespace(line))
    IN IF Len(parts) # 9 \/ \E i \in 1..Len(parts) : parts[i].text # "int"
       THEN MalformedResponse
       ELSE [counts |-> [i \in 1..8 |-> parts[i].val],
             overflow |-> parts[9].val]

(***************************************************************************)
(* The calculator specification: a conversion is given its arguments and   *)
(* applied; a byte that voltageToByte returned is then given to            *)
(* byteToVoltage.                                                          *)
(***************************************************************************)
MaxRate == 3
VoltOver == 20

\* Voltages in steps of 1 mV, from below 0 V to above 4.08 V.
VoltageArgs ==
    {Num(k, 1000) : k \in (-VoltOver)..(4080 + VoltOver)}
        \cup {NaN, PosInfinity, NegInfinity}

RateArgs == {Num(r, 1) : r \in 0..MaxRate}

\* Coincidence windows in quarters of a second.
WindowArgs == {Num(w, 4) : w \in 0..MaxRate}

ByteOver == 2

\* Bytes in steps of one half, from below 0 to above 255, and what is not a
\* byte at all.
ByteArgs ==
    {Num(k, 2) : k \in (-2 * ByteOver)..(2 * (255 + ByteOver))}
        \cup {NaN, PosInfinity, NegInfinity, NotANumber}

ChannelOver == 2

\* Channels in steps of one half, from below 0 to above 7, 3.14, and what is
\* not a channel at all.
ChannelArgs ==
    {Num(k, 2) : k \in (-2 * ChannelOver)..(2 * (7 + ChannelOver))}
        \cup {Num(314, 100), NaN, PosInfinity, NegInfinity, NotANumber}

MaxTokens == 10

TokenArgs == {IntToken(1), IntToken(2), JunkToken}

\* Replies of up to MaxTokens tokens.
ReplyArgs ==
    {[padded |-> p, tokens |-> t] :
        p \in BOOLEAN,
        t \in UNION {[1..n -> TokenArgs] : n \in 0..MaxTokens}}

MaxCoord == 2
MaxPoints == 3

\* Calibration points {raw, actual} with whole coordinates.
PointArgs ==
    {[raw |-> Num(r, 1), actual |-> Num(a, 1)] :
        r \in 0..MaxCoord, a \in 0..MaxCoord}

PointListArgs == UNION {[1..n -> PointArgs] : n \in 0..MaxPoints}

Calc(fn, args) ==
    [fn |-> fn, stage |-> 0, args |-> args, out |-> NaN, back |-> NaN]

CalcInputs ==
    {Calc("voltageToByte", <<v>>) : v \in VoltageArgs}
        \cup {Calc("byteToVoltage", <<b>>) : b \in ByteArgs}
        \cup {Calc("validateChannel", <<c>>) : c \in ChannelArgs}
        \cup {Calc("twoPoint", <<p1, p2>>) : p1 \in PointArgs, p2 \in PointArgs}
        \cup {Calc("multiPoint", <<ps>>) : ps \in PointListArgs}




        \cup {Calc("trueRate", <<m, r1, r2, w>>) :
                 m \in RateArgs, r1 \in RateArgs, r2 \in RateArgs,
                 w \in WindowArgs}

InitCalc ==
    /\ connected = FALSE
    /\ counts = Zeros
    /\ coincidenceCounts = 0
    /\ autoIncrement = DefaultOptions.autoIncrement
    /\ incrementRate = DefaultOptions.incrementRate
    /\ failConnection = DefaultOptions.failConnection
    /\ failCommands = FALSE
    /\ disconnectAfter = Null
    /\ commandCount = 0
    /\ interval = NoTimer
    /\ timers = {}
    /\ failTimeouts = 0
    /\ calls = EmptyBag
    /\ last = Quiet
    /\ budget = 0
    /\ calc \in CalcInputs
    /\ profile = NoProfile
    /\ storage = NoStorage
    /\ held = NoArray

VoltageToByteStep ==
    /\ calc.fn = "voltageToByte" /\ calc.stage = 0
    /\ calc' = [calc EXCEPT !.stage = 1, !.out = voltageToByte(calc.args[1])]
    /\ UNCHANGED <<deviceVars, profile, storage, held>>

ByteToVoltageStep ==
    /\ calc.fn = "voltageToByte" /\ calc.stage = 1
    /\ calc' = [calc EXCEPT !.stage = 2, !.back = byteToVoltage(calc.out)]
    /\ UNCHANGED <<deviceVars, profile, storage, held>>

TrueRateStep ==
    /\ calc.fn = "trueRate" /\ calc.stage = 0
    /\ calc' = [calc EXCEPT !.stage = 1,
                            !.out = trueRate(calc.args[1], calc.args[2],
                                             calc.args[3], calc.args[4])]
    /\ UNCHANGED <<deviceVars, profile, storage, held>>

ByteToVoltageCall ==
    /\ calc.fn = "byteToVoltage" /\ calc.stage = 0
    /\ calc' = [calc EXCEPT !.stage = 1, !.out = byteToVoltage(calc.args[1])]
    /\ UNCHANGED <<deviceVars, profile, storage, held>>

ValidateChannelCall ==
    /\ calc.fn = "validateChannel" /\ calc.stage = 0
    /\ calc' = [calc EXCEPT !.stage = 1, !.out = validateChannel(calc.args[1])]
    /\ UNCHANGED <<deviceVars, profile, storage, held>>

TwoPointCall ==
    /\ calc.fn = "twoPoint" /\ calc.stage = 0
    /\ calc' = [calc EXCEPT !.stage = 1,
                            !.out = twoPoint(calc.args[1], calc.args[2])]
    /\ UNCHANGED <<deviceVars, profile, storage, held>>

\* The fitted line applied to the raw values of the two points, and the fit
\* with the points given the other way round.
TwoPointApply ==
    /\ calc.fn = "twoPoint" /\ calc.stage = 1
    /\ calc' = [calc EXCEPT
                  !.stage = 2,
                  !.back = [at1 |-> apply(calc.args[1].raw, calc.out.gain,
                                          calc.out.offset),
                            at2 |-> apply(calc.args[2].raw, calc.out.gain,
                                          calc.out.offset),
                            swapped |-> twoPoint(calc.args[2], calc.args[1])]]
    /\ UNCHANGED <<deviceVars, profile, storage, held>>

MultiPointCall ==
    /\ calc.fn = "multiPoint" /\ calc.stage = 0
    /\ calc' = [calc EXCEPT !.stage = 1, !.out = multiPoint(calc.args[1])]
    /\ UNCHANGED <<deviceVars, profile, storage, held>>

NextCalc ==
    \/ VoltageToByteStep
    \/ ByteToVoltageStep
    \/ ByteToVoltageCall
    \/ ValidateChannelCall
    \/ TwoPointCall
    \/ TwoPointApply
    \/ MultiPointCall



    \/ TrueRateStep

SpecCalc == InitCalc /\ [][NextCalc]_vars

(***************************************************************************)
(* The driver's commands: a command is its character and a carriage        *)
(* return written to the port; getCounts chooses the character by its flag *)
(* and returns the parsed snapshot or the text report.                     *)
(***************************************************************************)
\* A line feed written after the carriage return.
Encode_WithLineFeed(command) == <<command, "\r", "\n">>

\* the string written for a command: 'v\r', 'c\r', 'C\r'
Encode(command) == <<command, "\r">>

getVersion(reply) ==
    [written |-> <<Encode("v")>>, returns |-> [text |-> reply]]

getCounts(humanReadable, reply) ==
    [written |-> <<Encode(IF humanReadable THEN "C" ELSE "c")>>,
     returns |-> IF humanReadable THEN [text |-> reply]
                 ELSE parseCounts(reply)]

\* Replies of nine integers, one of them unlike the others.
CountsReplies ==
    {[padded |-> FALSE,
      tokens |-> [i \in 1..9 |-> IntToken(IF i = k THEN 2 ELSE 1)]] :
        k \in 1..9}

ReplyInputs ==
    {Calc("parseCounts", <<r>>) : r \in ReplyArgs}
        \cup {Calc("getCounts", <<h, r>>) :
                 h \in BOOLEAN, r \in CountsReplies}
        \cup {Calc("getVersion", <<r>>) : r \in CountsReplies}

InitReply ==
    /\ connected = FALSE
    /\ counts = Zeros
    /\ coincidenceCounts = 0
    /\ autoIncrement = DefaultOptions.autoIncrement
    /\ incrementRate = DefaultOptions.incrementRate
    /\ failConnection = DefaultOptions.failConnection
    /\ failCommands = FALSE
    /\ disconnectAfter = Null
    /\ commandCount = 0
    /\ interval = NoTimer
    /\ timers = {}
    /\ failTimeouts = 0
    /\ calls = EmptyBag
    /\ last = Quiet
    /\ budget = 0
    /\ calc \in ReplyInputs
    /\ profile = NoProfile
    /\ storage = NoStorage
    /\ held = NoArray

ParseCountsCall ==
    /\ calc.fn = "parseCounts" /\ calc.stage = 0
    /\ calc' = [calc EXCEPT !.stage = 1, !.out = parseCounts(calc.args[1])]
    /\ UNCHANGED <<deviceVars, profile, storage, held>>

GetCountsCall ==
    /\ calc.fn = "getCounts" /\ calc.stage = 0
    /\ calc' = [calc EXCEPT !.stage = 1,
                            !.out = getCounts(calc.args[1], calc.args[2])]
    /\ UNCHANGED <<deviceVars, profile, storage, held>>

GetVersionCall ==
    /\ calc.fn = "getVersion" /\ calc.stage = 0
    /\ calc' = [calc EXCEPT !.stage = 1, !.out = getVersion(calc.args[1])]
    /\ UNCHANGED <<deviceVars, profile, storage, held>>

NextReply ==
    \/ ParseCountsCall
    \/ GetCountsCall
    \/ GetVersionCall

SpecReply == InitReply /\ [][NextReply]_vars

(***************************************************************************)
(* calibration.js, CalibrationProfile: the four maps from a channel to the *)
(* value stored for it, Undefined where nothing was stored.                *)
(***************************************************************************)
Undefined == [kind |-> "undefined", n |-> 0, d |-> 1]
JsNull == [kind |-> "null", n |-> 0, d |-> 1]

\* A value that || replaces by its right-hand side.
Falsy(x) ==
    \/ x.kind \in {"undefined", "null", "nan"}
    \/ x.kind = "num" /\ x.n = 0

\* x || otherwise
OrElse(x, otherwise) == IF Falsy(x) THEN otherwise ELSE x

\* constructor: this.voltages = {}, this.thresholds = {}, this.gains = {},
\* this.offsets = {}
NewProfile ==
    [voltages |-> [c \in 0..7 |-> Undefined],
     thresholds |-> [c \in 0..7 |-> Undefined],
     gains |-> [c \in 0..7 |-> Undefined],
     offsets |-> [c \in 0..7 |-> Undefined]]

MaxValue == 2

\* The values stored: whole numbers from 0.
ValueArgs == {Num(v, 1) : v \in 0..MaxValue}

\* The channels gains are set for and coefficients are read for, two of
\* them outside 0..7; offsets, voltages and thresholds are set for the first
\* channel only.
CoefficientChannelArgs == {0, 7, -1, 8}
SettingChannelArgs == {0, 8}
RawCountArgs == {1, 3}

\* The variables a method of the profile leaves alone.
profileIdle == <<connected, counts, coincidenceCounts, autoIncrement,
                 incrementRate, failConnection, failCommands,
                 disconnectAfter, commandCount, interval, timers,
                 failTimeouts, calls, budget, calc, storage, held>>

\* if (channel < 0 || channel > 7) throw new Error(...)
ChannelOutOfRange(channel) == channel < 0 \/ channel > 7

\* A setter: the range check, then this.<map>[channel] = value.
Store(op, map, channel, value) ==
    /\ IF ChannelOutOfRange(channel)
       THEN /\ last' = Event(op, "Error", [channel |-> channel])
            /\ UNCHANGED profile
       ELSE /\ profile' = [profile EXCEPT ![map][channel] = value]
            /\ last' = Event(op, "ok", [channel |-> channel])
    /\ UNCHANGED profileIdle

\* this.<map>[channel], undefined for a channel that is no key of the map
Stored(map, channel) ==
    IF channel \in DOMAIN profile[map] THEN profile[map][channel]
    ELSE Undefined

\* A getter: return this.<map>[channel] || null
Fetch(op, map, channel) ==
    /\ last' = Event(op, "ok", [channel |-> channel,
                                returned |-> OrElse(Stored(map, channel),
                                                    JsNull)])
    /\ UNCHANGED <<profile, profileIdle>>

setVoltage(channel, voltage) == Store("setVoltage", "voltages", channel, voltage)
getVoltage(channel) == Fetch("getVoltage", "voltages", channel)
setThreshold(channel, threshold) ==
    Store("setThreshold", "thresholds", channel, threshold)
getThreshold(channel) == Fetch("getThreshold", "thresholds", channel)
setGain(channel, gain) == Store("setGain", "gains", channel, gain)
getGain(channel) == Fetch("getGain", "gains", channel)
setOffset(channel, offset) == Store("setOffset", "offsets", channel, offset)
getOffset(channel) == Fetch("getOffset", "offsets", channel)

applyCounts(channel, rawCount) ==
    LET gain == OrElse(Stored("gains", channel), Num(1, 1))
        offset == OrElse(Stored("offsets", channel), Num(0, 1))
    IN /\ last' = Event("applyCounts", "ok",
                        [channel |-> channel, rawCount |-> rawCount,
                         returned |-> Add(Mul(rawCount, gain), offset)])
       /\ UNCHANGED <<profile, profileIdle>>

\* CalibrationWizard.calibrateGain after its await: the gain is the
\* reference rate over the measured rate and is stored with setGain.
calibrateGain(channel, referenceRate, measuredRate) ==
    LET gain == Div(referenceRate, measuredRate)
    IN /\ IF ChannelOutOfRange(channel)
          THEN /\ last' = Event("calibrateGain", "Error",
                                [channel |-> channel])
               /\ UNCHANGED profile
          ELSE /\ profile' = [profile EXCEPT !.gains[channel] = gain]
               /\ last' = Event("calibrateGain", "ok",
                                [channel |-> channel, returned |-> gain])
       /\ UNCHANGED profileIdle

InitProfile ==
    /\ connected = FALSE
    /\ counts = Zeros
    /\ coincidenceCounts = 0
    /\ autoIncrement = DefaultOptions.autoIncrement
    /\ incrementRate = DefaultOptions.incrementRate
    /\ failConnection = DefaultOptions.failConnection
    /\ failCommands = FALSE
    /\ disconnectAfter = Null
    /\ commandCount = 0
    /\ interval = NoTimer
    /\ timers = {}
    /\ failTimeouts = 0
    /\ calls = EmptyBag
    /\ last = Quiet
    /\ budget = 0
    /\ calc = NoCalc
    /\ profile = NewProfile
    /\ storage = NoStorage
    /\ held = NoArray

NextProfile ==
    \/ \E c \in SettingChannelArgs : \E v \in ValueArgs : setVoltage(c, v)
    \/ \E c \in SettingChannelArgs : getVoltage(c)
    \/ \E c \in SettingChannelArgs : \E v \in ValueArgs : setThreshold(c, v)
    \/ \E c \in SettingChannelArgs : getThreshold(c)
    \/ \E c \in CoefficientChannelArgs : \E v \in ValueArgs : setGain(c, v)
    \/ \E c \in CoefficientChannelArgs : getGain(c)
    \/ \E c \in SettingChannelArgs : \E v \in ValueArgs : setOffset(c, v)
    \/ \E c \in CoefficientChannelArgs : getOffset(c)
    \/ \E c \in CoefficientChannelArgs : \E r \in RawCountArgs :
          applyCounts(c, Num(r, 1))
    \/ \E c \in CoefficientChannelArgs :
          \E m \in RawCountArgs : calibrateGain(c, Num(3, 1), Num(m, 1))

SpecProfile == InitProfile /\ [][NextProfile]_vars

(***************************************************************************)
(* Properties of the conversions.                                          *)
(***************************************************************************)
Zero == Num(0, 1)

\* One step of the 8-bit scale: 4.08 / 255 volts.
LSB == Over(VOLTAGE_MAX, BYTE_MAX)

Distance(a, b) == IF Leq(a, b) THEN Minus(b, a) ELSE Minus(a, b)

\* C8: for non-negative measuredRate, rate1, rate2 and coincidenceWindow,
\* trueRate is max(0, measuredRate - 2 * coincidenceWindow * rate1 * rate2),
\* is never negative, and is 0 whenever measuredRate <= that accidental rate.
C8_TrueRateClamped ==
    (calc.fn = "trueRate" /\ calc.stage = 1) =>
        LET m == calc.args[1]
            acc == Times(Times(Times(Num(2, 1), calc.args[4]), calc.args[2]),
                         calc.args[3])
        IN /\ calc.out = (IF Leq(Minus(m, acc), Zero)
                             THEN Zero ELSE Minus(m, acc))
           /\ Leq(Zero, calc.out)
           /\ Leq(m, acc) => calc.out = Zero

\* A measured rate above zero and below the accidental rate: clamped to 0.
C8_Witness ==
    /\ calc.fn = "trueRate" /\ calc.stage = 1
    /\ Lt(Zero, calc.args[1])
    /\ Lt(calc.args[1], accidentalRate(calc.args[2], calc.args[3],
                                       calc.args[4]))
    /\ calc.out = Zero

\* C9: for a voltage v in [0, 4.08], voltageToByte(v) is a byte that
\* byteToVoltage accepts, and byteToVoltage of it is within one LSB
\* (4.08 / 255) of v.
C9_RoundTripWithinLSB ==
    (calc.fn = "voltageToByte" /\ calc.stage = 2
        /\ ~IsNaN(calc.args[1])
        /\ Leq(VOLTAGE_MIN, calc.args[1]) /\ Leq(calc.args[1], VOLTAGE_MAX))
    => /\ calc.back.kind = "num"
       /\ Leq(Distance(calc.back, calc.args[1]), LSB)

\* A voltage strictly inside the range that the round trip moved.
C9_Witness ==
    /\ calc.fn = "voltageToByte" /\ calc.stage = 2
    /\ ~IsNaN(calc.args[1])
    /\ Lt(VOLTAGE_MIN, calc.args[1]) /\ Lt(calc.args[1], VOLTAGE_MAX)
    /\ calc.back.kind = "num" /\ calc.back # calc.args[1]

\* C10: voltageToByte(v) is round(c / 4.08 * 255) with c = v clamped to
\* [0, 4.08] and halves rounded up: 0 for 0, 128 for 2.04, 255 for 4.08,
\* 0 below 0 and 255 above 4.08, and an integer in 0..255 for every
\* numeric input.
C10_ByteForEveryNumber ==
    (calc.fn = "voltageToByte" /\ calc.stage >= 1) =>
        LET v == calc.args[1]
            b == calc.out
        IN /\ b.kind = "num" /\ b.d = 1 /\ b.n \in 0..255
           /\ (~IsNaN(v) /\ Lt(v, VOLTAGE_MIN)) => b.n = 0
           /\ (~IsNaN(v) /\ Lt(VOLTAGE_MAX, v)) => b.n = 255
           /\ v = Num(0, 1) => b.n = 0
           /\ v = Num(204, 100) => b.n = 128
           /\ v = Num(408, 100) => b.n = 255
           /\ (~IsNaN(v) /\ Leq(VOLTAGE_MIN, v) /\ Leq(v, VOLTAGE_MAX)) =>
                 \* b - 1/2 <= v / 4.08 * 255 < b + 1/2
                 LET x == Times(Over(v, VOLTAGE_MAX), BYTE_MAX)
                 IN /\ Leq(Minus(b, Num(1, 2)), x)
                    /\ Lt(x, Times(Num(1, 1), Num(2 * b.n + 1, 2)))

\* C11: byteToVoltage rejects instead of clamping: for an input that is not
\* a number in 0..255 (below 0, above 255, NaN, not a number) it throws
\* ValidationError and returns no voltage; for a byte in 0..255 it returns
\* byte / 255 * 4.08, which is 0 for 0 and 4.08 for 255.
C11_ByteToVoltageRejects ==
    (calc.fn = "byteToVoltage" /\ calc.stage = 1) =>
        LET b == calc.args[1]
            inRange == b.kind = "num" /\ Leq(BYTE_MIN, b) /\ Leq(b, BYTE_MAX)
        IN /\ ~inRange => calc.out = Thrown
           /\ inRange => /\ calc.out = Num(b.n * 408, b.d * 255 * 100)
                         /\ b = Num(0, 1) => calc.out = Num(0, 1)
                         /\ b = Num(255, 1) => calc.out = Num(408, 100)

\* A byte just above 255 was rejected.
C11_Witness ==
    /\ calc.fn = "byteToVoltage" /\ calc.stage = 1
    /\ calc.args[1].kind = "num" /\ Lt(BYTE_MAX, calc.args[1])
    /\ calc.out = Thrown

\* C12: every value that validateChannel accepts is an integer in 0..7:
\* values below 0, above 7, NaN, non-numbers and non-integer numbers such
\* as 0.5 or 3.14 are all rejected.
C12_AcceptedChannelIsInteger ==
    (calc.fn = "validateChannel" /\ calc.stage = 1 /\ calc.out = "ok") =>
        LET c == calc.args[1]
        IN c.kind = "num" /\ c.d = 1 /\ c.n \in 0..7

\* C13: parseCounts is all-or-nothing: a reply becomes a snapshot only if it
\* is exactly 9 whitespace-separated tokens that are all integers, the first
\* 8 being the channel counts in order and the 9th the overflow indicator;
\* any other reply fails with MalformedResponseError and gives no snapshot.
C13_ParseCountsAllOrNothing ==
    (calc.fn = "parseCounts" /\ calc.stage = 1) =>
        LET tokens == calc.args[1].tokens
            wellFormed == /\ Len(tokens) = 9
                          /\ \A i \in 1..Len(tokens) : tokens[i].text = "int"
        IN /\ wellFormed =>
                 /\ DOMAIN calc.out = {"counts", "overflow"}
                 /\ Len(calc.out.counts) = 8
                 /\ \A i \in 1..8 : calc.out.counts[i] = tokens[i].val
                 /\ calc.out.overflow = tokens[9].val
           /\ ~wellFormed => calc.out = MalformedResponse

\* A reply of nine integers with whitespace around them became a snapshot.
C13_Witness ==
    /\ calc.fn = "parseCounts" /\ calc.stage = 1
    /\ calc.args[1].padded
    /\ "counts" \in DOMAIN calc.out
    /\ calc.out.counts[1] # calc.out.counts[2]

IsCoefficients(out) == DOMAIN out = {"gain", "offset"}

\* C15: twoPoint with point1.raw = point2.raw fails with a degenerate-
\* calibration error and never returns a coefficient pair, in particular
\* never a gain or offset that is NaN or infinite.
C15_TwoPointDegenerateFails ==
    (calc.fn = "twoPoint" /\ calc.stage >= 1
        /\ calc.args[1].raw = calc.args[2].raw)
    => ~IsCoefficients(calc.out)

C17_MultiPointFails ==
    (calc.fn = "multiPoint" /\ calc.stage = 1) =>
        LET points == calc.args[1]
        IN /\ Len(points) < 2 => ~IsCoefficients(calc.out)
           /\ (Len(points) >= 2
                  /\ \A i \in 1..Len(points) : points[i].raw = points[1].raw)
              => ~IsCoefficients(calc.out)

\* C18: applyCounts(channel, rawCount) returns rawCount * g + o, where g and
\* o are the gain and offset stored for the channel by the latest setGain
\* and setOffset, g = 1 only when no gain was ever stored and o = 0 only
\* when no offset was ever stored; so also for a stored gain of 0.
C18_ApplyCountsUsesStored ==
    (last.op = "applyCounts") =>
        LET storedGain == Stored("gains", last.val.channel)
            storedOffset == Stored("offsets", last.val.channel)
            g == IF storedGain = Undefined THEN Num(1, 1) ELSE storedGain
            o == IF storedOffset = Undefined THEN Num(0, 1) ELSE storedOffset
        IN last.val.returned = Add(Mul(last.val.rawCount, g), o)

\* C19: each getter (getVoltage, getThreshold, getGain, getOffset) returns
\* for a channel the value most recently set for it, and null if and only
\* if none was ever set; a 0 that was set is returned as 0, not as null.
C19_GetterReturnsStored ==
    (last.op \in {"getVoltage", "getThreshold", "getGain", "getOffset"}) =>
        LET map == CASE last.op = "getVoltage" -> "voltages"
                     [] last.op = "getThreshold" -> "thresholds"
                     [] last.op = "getGain" -> "gains"
                     [] last.op = "getOffset" -> "offsets"
            stored == Stored(map, last.val.channel)
        IN /\ stored # Undefined => last.val.returned = stored
           /\ last.val.returned = JsNull <=> stored = Undefined

\* C20: re-calibrating a channel replaces its {gain, offset} pair as one
\* unit: a step that changes the pair stored for a channel never leaves the
\* new gain beside the old offset, or the old gain beside the new offset,
\* for a reader (applyCounts, getGain, getOffset) to find.
C20_PairReplacedAsUnit ==
    [][\A ch \in 0..7 :
          (/\ profile.gains[ch] # Undefined
           /\ profile.offsets[ch] # Undefined
           /\ <<profile'.gains[ch], profile'.offsets[ch]>>
                 # <<profile.gains[ch], profile.offsets[ch]>>)
          => /\ profile'.gains[ch] # profile.gains[ch]
             /\ profile'.offsets[ch] # profile.offsets[ch]]_vars

(***************************************************************************)
(* The session specification: the connection lifecycle of the mock, driven *)
(* by connect, disconnect, one command method, the failure hooks and the   *)
(* public failConnection field, which the tests assign on a constructed    *)
(* device (cd48.failConnection = true).                                    *)
(***************************************************************************)
MaxSessionOps == 4

\* The command method the session is exercised with.
SessionOp == "getVersion"

\* cd48.failConnection = b
SetFailConnection(b) ==
    /\ budget > 0
    /\ failConnection' = b
    /\ last' = Event("failConnection", "ok", NoVal)
    /\ budget' = budget - 1
    /\ UNCHANGED <<connected, counts, coincidenceCounts, autoIncrement,
                   incrementRate, failCommands, disconnectAfter,
                   commandCount, interval, timers, failTimeouts, calls, calc,
                   profile, storage, held>>

InitSession ==
    /\ connected = FALSE
    /\ counts = Zeros
    /\ coincidenceCounts = 0
    /\ \E options \in Options :
          /\ autoIncrement = options.autoIncrement
          /\ incrementRate = options.incrementRate
          /\ failConnection = options.failConnection
    /\ failCommands = FALSE
    /\ disconnectAfter = Null
    /\ commandCount = 0
    /\ interval = NoTimer
    /\ timers = {}
    /\ failTimeouts = 0
    /\ calls = EmptyBag
    /\ last = Quiet
    /\ budget = MaxSessionOps
    /\ calc = NoCalc
    /\ profile = NoProfile
    /\ storage = NoStorage
    /\ held = NoArray

NextSession ==
    \/ ConnectCall
    \/ \E c \in InProgress : ConnectFail(c)
    \/ \E c \in InProgress : ConnectDone(c)
    \/ DisconnectCall
    \/ \E c \in InProgress : DisconnectDone(c)
    \/ CommandRejected(SessionOp, 0, 0)
    \/ CommandCall(SessionOp, 0, 0)
    \/ \E c \in InProgress : ExecFail(c)
    \/ \E c \in InProgress : ExecDisconnect(c)
    \/ \E c \in InProgress : PlainDone(c)
    \/ \E t \in timers : TickStop(t)
    \/ \E t \in timers : TickIncrement(t)
    \/ FailNextCommand
    \/ FailReset
    \/ \E n \in DisconnectAfterArgs : SetDisconnectAfter(n)
    \/ DirectStartAutoIncrement
    \/ \E b \in BOOLEAN : SetFailConnection(b)

SpecSession == InitSession /\ [][NextSession]_vars

(***************************************************************************)
(* The timer specification: the auto-increment timer under connect,        *)
(* disconnect, direct _startAutoIncrement calls and unexpected             *)
(* disconnects, on a device constructed with the default options or with   *)
(* the disconnectAfter option.  The event loop keeps running the callback  *)
(* of setInterval every 100 ms for as long as the timer is scheduled.      *)
(***************************************************************************)
MaxTimerOps == 3

InitTimer ==
    /\ connected = FALSE
    /\ counts = Zeros
    /\ coincidenceCounts = 0
    /\ autoIncrement = DefaultOptions.autoIncrement
    /\ incrementRate = DefaultOptions.incrementRate
    /\ failConnection = DefaultOptions.failConnection
    /\ failCommands = FALSE
    /\ disconnectAfter \in {Null} \cup DisconnectAfterArgs
    /\ commandCount = 0
    /\ interval = NoTimer
    /\ timers = {}
    /\ failTimeouts = 0
    /\ calls = EmptyBag
    /\ last = Quiet
    /\ budget = MaxTimerOps
    /\ calc = NoCalc
    /\ profile = NoProfile
    /\ storage = NoStorage
    /\ held = NoArray

\* The callback of setInterval.
Tick == \E t \in timers : TickStop(t) \/ TickIncrement(t)

NextTimer ==
    \/ ConnectCall
    \/ \E c \in InProgress : ConnectDone(c)
    \/ DisconnectCall
    \/ \E c \in InProgress : DisconnectDone(c)
    \/ CommandRejected(SessionOp, 0, 0)
    \/ CommandCall(SessionOp, 0, 0)
    \/ \E c \in InProgress : ExecDisconnect(c)
    \/ \E c \in InProgress : PlainDone(c)
    \/ DirectStartAutoIncrement
    \/ Tick

SpecTimer == InitTimer /\ [][NextTimer]_vars /\ WF_vars(Tick)

\* C21: isConnected() is false on a new instance, true when a connect()
\* returns and false when a disconnect() returns, whatever else is pending;
\* a connect() that fails leaves connected = false and starts no
\* auto-increment timer.
C21_ConnectedFollowsLifecycle ==
    /\ ~connected
    /\ [][\A c \in InProgress :
             (c.pc = "delay" /\ calls' = Settled(c)) =>
                /\ (c.op = "connect" /\ last'.outcome = "ok") => connected'
                /\ (c.op = "connect" /\ last'.outcome = "ConnectionFailed") =>
                      (~connected' /\ timers' \subseteq timers)
                /\ c.op = "disconnect" => ~connected']_vars

\* C22: no command is retried.  Each call of a command method makes one
\* attempt: commandCount grows by at most 1 in a step, and only in a step
\* that takes one call out of _executeCommand; a call enters
\* _executeCommand only when the caller calls a method; and a failed
\* attempt is reported to the caller in the step that ends the call.
C22_NoRetry ==
    [][/\ commandCount' > commandCount =>
             /\ commandCount' = commandCount + 1
             /\ CommandsInFlight' = CommandsInFlight - 1
       /\ CommandsInFlight' > CommandsInFlight => budget' < budget
       /\ last'.outcome \in {"CommandFailed", "Disconnected"} =>
             \E c \in InProgress :
                /\ c.pc = "exec" /\ last'.op = c.op
                /\ calls' = Settled(c)]_vars

\* A command failed after an earlier one had succeeded, and no call is left.
C22_Witness ==
    /\ last.op = SessionOp /\ last.outcome = "CommandFailed"
    /\ commandCount = 1
    /\ calls = EmptyBag

(***************************************************************************)
(* CalibrationStorage: the profiles kept in one item of localStorage, the  *)
(* JSON text of an object keyed by profile name.  The item is modelled by  *)
(* the object JSON.parse makes of it; the description and the date of a    *)
(* profile are left out.  storage.saved is history: the profile most       *)
(* recently handed to save or import under each name.                      *)
(***************************************************************************)
\* JSON.parse(JSON.stringify(x)) of a number: JSON has no NaN and no
\* infinity and writes them as null.
JsonValue(x) == IF x.kind \in {"nan", "inf"} THEN JsNull ELSE x

\* The same of a map from channels to numbers.
JsonMap(m) == [c \in DOMAIN m |-> JsonValue(m[c])]

\* new CalibrationProfile({name}) after setGain(0, gain)
ProfileNamed(name, gain) ==
    [kind |-> "profile", name |-> name,
     voltages |-> NewProfile.voltages,
     thresholds |-> NewProfile.thresholds,
     gains |-> [NewProfile.gains EXCEPT ![0] = gain],
     offsets |-> NewProfile.offsets,
     metadata |-> {}]

\* toJSON(): the plain object of the profile's fields
toJSON(p) ==
    [kind |-> "object", name |-> p.name, voltages |-> p.voltages,
     thresholds |-> p.thresholds, gains |-> p.gains, offsets |-> p.offsets,
     metadata |-> p.metadata]

\* What JSON.parse reads back from the JSON.stringify of such an object.
JsonObject(data) ==
    [kind |-> "object", name |-> data.name,
     voltages |-> JsonMap(data.voltages),
     thresholds |-> JsonMap(data.thresholds), gains |-> JsonMap(data.gains),
     offsets |-> JsonMap(data.offsets), metadata |-> data.metadata]

\* fromJSON(data): a new profile that takes over the maps of data
fromJSON(data) ==
    [kind |-> "profile",
     name |-> IF data.name = "" THEN "Untitled Profile" ELSE data.name,
     voltages |-> data.voltages, thresholds |-> data.thresholds,
     gains |-> data.gains, offsets |-> data.offsets,
     metadata |-> data.metadata]

\* Object.prototype.constructor, the function Object, as fromJSON reads it:
\* its name is "Object", and its voltages, thresholds, gains, offsets and
\* metadata are undefined, which || {} replaces by empty maps.
ObjectFunction ==
    [kind |-> "object", name |-> "Object",
     voltages |-> NewProfile.voltages, thresholds |-> NewProfile.thresholds,
     gains |-> NewProfile.gains, offsets |-> NewProfile.offsets,
     metadata |-> {}]

\* The keys every object inherits from Object.prototype, one of them.
InheritedKeys == {"constructor"}

\* The names profiles are saved under, and the names asked for.
SavedNames == {"A", "B"}
StorageNames == SavedNames \cup InheritedKeys

\* The gains of the profiles saved: Infinity is what calibrateGain stores
\* for a channel that counted nothing.
GainArgs == {Num(1, 1), Num(2, 1), PosInfinity}

\* The documents given to import.
ImportDocs ==
    {[n \in {"A"} |-> JsonObject(toJSON(ProfileNamed("A", Num(3, 1))))],
     [n \in {"B"} |-> JsonObject(toJSON(ProfileNamed("B", Num(3, 1))))]}

\* obj[key] = value
Put(obj, key, value) ==
    [n \in DOMAIN obj \cup {key} |-> IF n = key THEN value ELSE obj[n]]

\* delete obj[key]
Without(obj, key) == [n \in DOMAIN obj \ {key} |-> obj[n]]

\* {...a, ...b}
Spread(a, b) ==
    [n \in DOMAIN a \cup DOMAIN b |-> IF n \in DOMAIN b THEN b[n] ELSE a[n]]

\* JSON.parse(JSON.stringify(profiles))
JsonProfiles(profiles) == [n \in DOMAIN profiles |-> JsonObject(profiles[n])]

\* loadAll(): data ? JSON.parse(data) : {}
loadAll == IF storage.item = "null" THEN [n \in {} |-> JsNull]
           ELSE storage.profiles

\* profiles[name]: an own key, or a key inherited from Object.prototype
Lookup(profiles, name) ==
    IF name \in DOMAIN profiles THEN profiles[name]
    ELSE IF name \in InheritedKeys THEN ObjectFunction
    ELSE Undefined

\* localStorage.setItem(storageKey, JSON.stringify(profiles))
SetItem(profiles, saved) ==
    storage' = [item |-> "text", profiles |-> JsonProfiles(profiles),
                saved |-> saved]

\* The variables a method of the storage leaves alone.
storageIdle == <<connected, counts, coincidenceCounts, autoIncrement,
                 incrementRate, failConnection, failCommands,
                 disconnectAfter, commandCount, interval, timers,
                 failTimeouts, calls, budget, calc, profile, held>>

save(p) ==
    /\ SetItem(Put(loadAll, p.name, toJSON(p)), Put(storage.saved, p.name, p))
    /\ last' = Event("save", "ok", [name |-> p.name])
    /\ UNCHANGED storageIdle

load(name) ==
    LET found == Lookup(loadAll, name)
    IN /\ last' = Event("load", "ok",
                        [name |-> name,
                         returned |-> IF Falsy(found) THEN JsNull
                                      ELSE fromJSON(found)])
       /\ UNCHANGED <<storage, storageIdle>>

listProfiles ==
    /\ last' = Event("listProfiles", "ok", [returned |-> DOMAIN loadAll])
    /\ UNCHANGED <<storage, storageIdle>>

delete(name) ==
    /\ SetItem(Without(loadAll, name), Without(storage.saved, name))
    /\ last' = Event("delete", "ok", [name |-> name])
    /\ UNCHANGED storageIdle

\* localStorage.removeItem(storageKey)
clear ==
    /\ storage' = NoStorage
    /\ last' = Event("clear", "ok", NoVal)
    /\ UNCHANGED storageIdle

\* import(jsonString, merge), jsonString the text of the document imported
import(imported, merge) ==
    LET profiles == [n \in DOMAIN imported |-> fromJSON(imported[n])]
    IN /\ IF merge
          THEN SetItem(Spread(loadAll, imported),
                       Spread(storage.saved, profiles))
          ELSE SetItem(imported, profiles)
       /\ last' = Event("import", "ok", [merge |-> merge])
       /\ UNCHANGED storageIdle

InitStorage ==
    /\ connected = FALSE
    /\ counts = Zeros
    /\ coincidenceCounts = 0
    /\ autoIncrement = DefaultOptions.autoIncrement
    /\ incrementRate = DefaultOptions.incrementRate
    /\ failConnection = DefaultOptions.failConnection
    /\ failCommands = FALSE
    /\ disconnectAfter = Null
    /\ commandCount = 0
    /\ interval = NoTimer
    /\ timers = {}
    /\ failTimeouts = 0
    /\ calls = EmptyBag
    /\ last = Quiet
    /\ budget = 0
    /\ calc = NoCalc
    /\ profile = NoProfile
    /\ storage = NoStorage
    /\ held = NoArray

NextStorage ==
    \/ \E n \in SavedNames : \E g \in GainArgs : save(ProfileNamed(n, g))
    \/ \E n \in StorageNames : load(n)
    \/ listProfiles
    \/ \E n \in SavedNames : delete(n)
    \/ clear
    \/ \E doc \in ImportDocs : \E merge \in BOOLEAN : import(doc, merge)

SpecStorage == InitStorage /\ [][NextStorage]_vars

\* C23: the storage is a map from profile name to the last profile saved
\* under it: load(name) returns a profile equal in name, gains, offsets,
\* voltages, thresholds and metadata to the one most recently saved or
\* imported under the name, and null when the name was never stored or was
\* deleted or cleared since; listProfiles() returns exactly the names for
\* which load is not null.  (Import with merge = false leaves only the
\* imported names and with merge = true lets the imported ones win: that
\* is how storage.saved follows import.)
C23_StorageIsMap ==
    /\ last.op = "load" =>
          last.val.returned =
             IF last.val.name \in DOMAIN storage.saved
             THEN storage.saved[last.val.name]
             ELSE JsNull
    /\ last.op = "listProfiles" =>
          last.val.returned = DOMAIN storage.saved

\* C24: after clearCounts() returns, the next getCounts() returns 0 on all
\* 8 channels, for every interleaving of device activity.  The counters are
\* all zero when clearCounts returns; whatever step of the device follows
\* that return, other than a setCounts of the caller, leaves them zero,
\* and a getCounts that returns while they are zero returns eight zeros.
C24_ZeroAfterClear ==
    [][/\ (last.op = "clearCounts" /\ last.outcome = "ok") =>
             /\ counts = Zeros
             /\ last'.op # "setCounts" => counts' = Zeros
       /\ (last'.op = "getCounts" /\ last'.outcome = "ok"
              /\ counts = Zeros) =>
             last'.val.counts = Zeros]_vars

\* C25: after setDisconnectAfter(n) the next n commands succeed, command
\* n + 1 fails with 'Device disconnected unexpectedly' and leaves
\* connected = false, and every later command fails as not connected until
\* connect() is called; commands that fail by a simulated failure do not
\* count towards n, and connect() restarts the count from 0.  commandCount
\* is the number of commands counted: setDisconnectAfter and connect() set
\* it to 0, and a command that returns finds it below n and succeeds as one
\* more, or finds it at n (or beyond, for a command that was already in
\* flight) and fails disconnecting the device, or meets the simulated
\* failure and leaves it as it is.
C25_DisconnectAfter ==
    [][/\ last'.op = "setDisconnectAfter" =>
             (commandCount' = 0 /\ disconnectAfter' \in DisconnectAfterArgs)
       /\ (last'.op = "connect" /\ last'.outcome = "ok") =>
             (commandCount' = 0 /\ connected')
       /\ (~connected /\ budget' < budget /\ last'.op = SessionOp) =>
             last'.outcome = "NotConnected"
       /\ \A c \in InProgress :
             (c.pc = "exec" /\ calls' = Settled(c)) =>
                IF failCommands
                THEN /\ last'.outcome = "CommandFailed"
                     /\ UNCHANGED <<commandCount, connected>>
                ELSE IF disconnectAfter = Null
                        \/ commandCount < disconnectAfter
                THEN /\ last'.outcome = "ok"
                     /\ commandCount' = commandCount + 1
                     /\ UNCHANGED connected
                ELSE /\ last'.outcome = "Disconnected"
                     /\ commandCount' = commandCount + 1
                     /\ ~connected']_vars

\* After setDisconnectAfter(1) one command succeeded and the second failed
\* disconnecting the device.
C25_Witness ==
    /\ disconnectAfter = 1 /\ commandCount = 2
    /\ ~connected
    /\ last.op = SessionOp /\ last.outcome = "Disconnected"

\* C26: channel validation is the first step of measureRate: a call with a
\* channel outside 0..7 fails with the invalid-channel error in the step
\* that makes the call, so that no command is issued for it: commandCount
\* stays as it is and the call never waits in _executeCommand or in a
\* sampling window.
C26_ChannelCheckedFirst ==
    [][last'.outcome = "InvalidChannel" =>
          /\ budget' < budget
          /\ UNCHANGED <<commandCount, calls>>]_vars

(***************************************************************************)
(* The arrays specification: a caller that holds on to an array of counts  *)
(* (the initialCounts it constructed the mock with, the array it gave to   *)
(* setCounts, or the counts of a snapshot getCounts returned) and later    *)
(* writes into it, while the device goes on.                               *)
(***************************************************************************)
MaxArrayOps == 4

\* The caller will hold on to the first array it hands in or gets back.
Awaiting == [from |-> "awaiting", elems |-> <<>>, shared |-> FALSE]

\* The array given as options.initialCounts.
InitialCountsArgs == {Zeros}

\* The command methods the caller uses.
ArrayOps == {"getCounts", "clearCounts"}

\* held[0] = held[0] + 1, by the caller: a write into the array it holds,
\* which is a write into this.counts when they are the same array
CallerWrites ==
    /\ budget > 0
    /\ held.from \notin {"none", "awaiting"}
    /\ held' = [held EXCEPT !.elems[1] = @ + 1]
    /\ counts' = IF held.shared THEN held'.elems ELSE counts
    /\ last' = Event("write", "ok", NoVal)
    /\ budget' = budget - 1
    /\ UNCHANGED <<connected, coincidenceCounts, autoIncrement, incrementRate,
                   failConnection, failCommands, disconnectAfter,
                   commandCount, interval, timers, failTimeouts, calls, calc,
                   profile, storage>>

\* new MockCD48() or new MockCD48({initialCounts})
InitArrays ==
    /\ connected = FALSE
    /\ \/ counts = Zeros /\ held = Awaiting
       \/ \E arr \in InitialCountsArgs : counts = arr /\ held = Adopted(arr)
    /\ coincidenceCounts = 0
    /\ autoIncrement = DefaultOptions.autoIncrement
    /\ incrementRate = DefaultOptions.incrementRate
    /\ failConnection = DefaultOptions.failConnection
    /\ failCommands = FALSE
    /\ disconnectAfter = Null
    /\ commandCount = 0
    /\ interval = NoTimer
    /\ timers = {}
    /\ failTimeouts = 0
    /\ calls = EmptyBag
    /\ last = Quiet
    /\ budget = MaxArrayOps
    /\ calc = NoCalc
    /\ profile = NoProfile
    /\ storage = NoStorage

NextArrays ==
    \/ ConnectCall
    \/ \E c \in InProgress : ConnectDone(c)
    \/ \E op \in ArrayOps : CommandRejected(op, 0, 0)
    \/ \E op \in ArrayOps : CommandCall(op, 0, 0)
    \/ \E c \in InProgress : GetCountsDone(c)
    \/ \E c \in InProgress : ClearCountsDone(c)
    \/ \E t \in timers : TickIncrement(t)
    \/ \E arr \in SetCountsArgs : SetCounts(arr)
    \/ \E arr \in SetCountsArgs : SetCountsRejected(arr)
    \/ CallerWrites

SpecArrays == InitArrays /\ [][NextArrays]_vars

\* C27: the snapshot returned by getCounts is immutable: no later
\* operation of the device changes the counts held in a snapshot that was
\* returned, and a change the caller makes to the snapshot does not change
\* the device's counters.
C27_SnapshotImmutable ==
    [][(held.from = "getCounts" /\ held'.from = "getCounts") =>
          IF last'.op = "write"
          THEN counts' = counts
          ELSE held'.elems = held.elems]_vars

\* The caller has written into a snapshot that the device's counters had
\* already moved away from.
C27_Witness ==
    /\ held.from = "getCounts"
    /\ last.op = "write"
    /\ held.elems[1] = 1 /\ counts[1] = 0 /\ SumSeq(counts) > 0

\* C30: the device keeps its own copy of its 8 counters: an array the
\* caller handed in, to setCounts or as initialCounts at construction, is
\* never changed by what the device does later, and a change the caller
\* makes to that array later does not change the device's counters.
C30_DeviceKeepsOwnCopy ==
    [][(held.from \in {"setCounts", "initialCounts"}
           /\ held'.from = held.from) =>
          IF last'.op = "write"
          THEN counts' = counts
          ELSE held'.elems = held.elems]_vars

\* C28: at most one auto-increment timer is scheduled at any time, after
\* any sequence of connect, disconnect, direct _startAutoIncrement calls
\* and unexpected disconnects; while connected is false no timer tick
\* changes counts or coincidenceCounts; and a timer that is scheduled when
\* connected is false is stopped by its next tick: eventually no timer is
\* scheduled, unless the device is connected again.
C28_OneTimer ==
    /\ [](Cardinality(timers) <= 1)
    /\ [][~connected => UNCHANGED <<counts, coincidenceCounts>>]_vars
    /\ (~connected /\ timers # {}) ~> (timers = {} \/ connected)

\* An unexpected disconnect has left the timer of connect() scheduled after
\* it had counted.
C28_Witness ==
    /\ ~connected /\ last.outcome = "Disconnected"
    /\ Cardinality(timers) = 1
    /\ SumSeq(counts) + coincidenceCounts > 0

====
